---------------------------- MODULE Spec2Model ----------------------------
(***************************************************************************)
(* beelib.beehbase: the batched writer save_to_hbase and the paginated     *)
(* range scan get_hbase_data_batch over a sorted key-value store.          *)
(*                                                                         *)
(* A behaviour is one call of one of the two functions: the initial state   *)
(* holds the call's arguments, the actions are the steps of the function   *)
(* body.  Spec is a call of get_hbase_data_batch, SaveSpec a call of       *)
(* save_to_hbase.                                                          *)
(*                                                                         *)
(* Row keys of the scan are Python str values, modelled as sequences of    *)
(* code points.  The store orders keys by the bytes of their UTF-8         *)
(* encoding, which is the order of the code point sequences.  None and ""  *)
(* are both the empty sequence: `if row_prefix:` treats them alike, and    *)
(* the store reads an empty start or stop row as "unbounded".  limit = 0   *)
(* stands for limit=None (`if limit:` treats them alike).                  *)
(***************************************************************************)
EXTENDS Integers, Sequences, FiniteSets, TLC

VARIABLES
    \* ---- get_hbase_data_batch
    store,              \* the table: the set of stored row keys (never modified)
    row_prefix,         \* argument
    row_start,          \* argument, then the cursor
    row_stop,           \* argument
    batch_size,         \* argument
    limit,              \* argument (0 = None)
    reverse,            \* argument
    current_limit,      \* local
    current_register,   \* local
    data,               \* local: the rows of the round's scan
    scans,              \* the scan requests issued so far, oldest first
    yielded,            \* the batches yielded so far, oldest first
    scan_pc,            \* position of the generator
    \* ---- save_to_hbase
    documents,          \* argument: sequence of records (field -> value)
    cf_mapping,         \* argument: sequence of <<cf, fields>>
    row_fields,         \* argument (<<>> = None)
    put_batch_size,     \* argument batch_size
    create_outcome,     \* what hbase.create_table did
    printed,            \* __get_h_table__ printed the create_table error
    table_open,         \* hbase.table(table_name) was called
    uid,                \* local
    row_auto,           \* local
    doc_index,          \* the record the for loop is at
    puts,               \* the h_batch.put calls made so far, oldest first
    sends,              \* the number of h_batch.send calls made by save_to_hbase
    pending,            \* the puts held in the client-side batch
    flushed,            \* the puts delivered to the store
    save_pc             \* position in save_to_hbase

scan_vars == <<store, row_prefix, row_start, row_stop, batch_size, limit, reverse,
               current_limit, current_register, data, scans, yielded, scan_pc>>

save_vars == <<documents, cf_mapping, row_fields, put_batch_size, create_outcome,
               printed, table_open, uid, row_auto, doc_index, puts, sends, pending, flushed,
               save_pc>>

vars == <<scan_vars, save_vars>>

----------------------------------------------------------------------------
(* Bounds *)

MaxRows   == 3      \* most rows in the table
MaxBatch  == 2      \* largest batch_size argument
MaxLimit  == 3      \* largest limit argument
MaxCount  == 4      \* without a limit the (never read) row count is kept up to MaxCount
MaxHist   == 4      \* the histories scans and yielded keep their first MaxHist entries

(* Program constants *)

MaxCodePoint == 1114111     \* chr() accepts 0 .. 0x10FFFF and raises ValueError above

Alphabet == {97, 98, MaxCodePoint}      \* 'a', 'b', U+10FFFF

None == <<>>

\* row keys and prefixes of one or two characters
KeyUniverse == {<<c>> : c \in Alphabet} \cup {<<c, d>> : c, d \in Alphabet}

RECURSIVE SubsetsUpTo(_, _)
SubsetsUpTo(U, n) ==
    IF n = 0 THEN {{}}
    ELSE LET P == SubsetsUpTo(U, n - 1)
         IN  P \cup {s \cup {k} : s \in P, k \in U}

----------------------------------------------------------------------------
(* Strings and the store's scan primitive *)

Min(a, b) == IF a <= b THEN a ELSE b

\* a < b in the store's (lexicographic) key order
LexLess(a, b) ==
    \/ \E i \in 1..Min(Len(a), Len(b)) :
          /\ \A j \in 1..(i - 1) : a[j] = b[j]
          /\ a[i] < b[i]
    \/ /\ Len(a) < Len(b)
       /\ \A j \in 1..Len(a) : a[j] = b[j]

LexLeq(a, b) == a = b \/ LexLess(a, b)

\* s[:-1] + chr(ord(s[-1]) + 1); chr raises ValueError past MaxCodePoint
CanIncrement(s) == s[Len(s)] + 1 <= MaxCodePoint

\* the last character is left as it is
IncrementLastUnchanged(s) == s

\* the cursor is moved by appending the lowest character instead
IncrementByAppending(s) == Append(s, 0)

\* the last character is moved down instead of up
IncrementDownwards(s) == [s EXCEPT ![Len(s)] = @ - 1]

Increment(s) == [s EXCEPT ![Len(s)] = @ + 1]

\* the rows a scan(row_start, row_stop, reverse) ranges over
InScanRange(k, rs, re, rev) ==
    IF rev
    THEN (rs = None \/ LexLeq(k, rs)) /\ (re = None \/ LexLess(re, k))
    ELSE (rs = None \/ LexLeq(rs, k)) /\ (re = None \/ LexLess(k, re))

RECURSIVE SortAsc(_)
SortAsc(S) ==
    IF S = {} THEN <<>>
    ELSE LET m == CHOOSE x \in S : \A y \in S : LexLeq(x, y)
         IN  <<m>> \o SortAsc(S \ {m})

Reversed(s) == [i \in 1..Len(s) |-> s[Len(s) + 1 - i]]

\* list(table.scan(row_start=..., row_stop=..., limit=..., reverse=...))
Scan(rows, rs, re, lim, rev) ==
    LET hit == {k \in rows : InScanRange(k, rs, re, rev)}
        asc == SortAsc(hit)
        ord == IF rev THEN Reversed(asc) ELSE asc
    IN  SubSeq(ord, 1, Min(lim, Len(ord)))

\* histories keep their first MaxHist entries
Record(hist, e) == IF Len(hist) < MaxHist THEN Append(hist, e) ELSE hist

\* current_register is read only under `if limit:`; without a limit its value is
\* kept up to MaxCount
Count(lim, reg) == IF lim # 0 THEN reg ELSE Min(reg, MaxCount)

----------------------------------------------------------------------------
(* get_hbase_data_batch *)

InitialLimit(lim, bs) ==
    IF lim # 0
    THEN IF lim > bs THEN bs ELSE lim
    ELSE bs

\* the rows already yielded are not taken off the limit
NextLimitWholeBatch(lim, bs, reg) == bs

NextLimit(lim, bs, reg) == Min(bs, lim - reg)

\* only an empty round ends the scan
IsTerminalBatchEmptyOnly(rows) == Len(rows) < 1

IsTerminalBatch(rows) == Len(rows) <= 1

LimitReached(lim, reg) == lim # 0 /\ reg >= lim

InitScan ==
    /\ store \in SubsetsUpTo(KeyUniverse, MaxRows)
    /\ row_prefix \in {None} \cup KeyUniverse
    /\ \E range \in IF row_prefix = None
                     THEN {None, <<98>>} \X {None, <<MaxCodePoint>>}
                     ELSE {<<None, None>>, <<<<98>>, <<MaxCodePoint>>>>} :
          /\ row_start = range[1]
          /\ row_stop = range[2]
    /\ batch_size \in 1..MaxBatch
    /\ limit \in 0..MaxLimit
    /\ reverse \in BOOLEAN
    /\ current_limit = 0
    /\ current_register = 0
    /\ data = <<>>
    /\ scans = <<>>
    /\ yielded = <<>>
    /\ scan_pc = "start"

\* lines 108-119: prefix derivation and the first round's size
ScanStart ==
    /\ scan_pc = "start"
    /\ IF row_prefix # None /\ ~CanIncrement(row_prefix)
       THEN /\ scan_pc' = "error"
            /\ row_start' = row_prefix
            /\ UNCHANGED <<row_stop, current_limit, current_register>>
       ELSE /\ row_start' = IF row_prefix # None THEN row_prefix ELSE row_start
            /\ row_stop' = IF row_prefix # None THEN Increment(row_prefix) ELSE row_stop
            /\ current_limit' = InitialLimit(limit, batch_size)
            /\ current_register' = 0
            /\ scan_pc' = "loop"
    /\ UNCHANGED <<store, row_prefix, batch_size, limit, reverse, data, scans, yielded>>
    /\ UNCHANGED save_vars

\* lines 121-129: a round's scan; an empty result ends the generator, any other is
\* yielded and the generator waits for the consumer
ScanRound ==
    /\ scan_pc = "loop"
    /\ data' = Scan(store, row_start, row_stop, current_limit, reverse)
    /\ scans' = Record(scans, [row_start |-> row_start, row_stop |-> row_stop,
                               limit |-> current_limit, reverse |-> reverse])
    /\ IF data' = <<>>
       THEN /\ scan_pc' = "exhausted"
            /\ UNCHANGED yielded
       ELSE /\ yielded' = Record(yielded, data')
            /\ scan_pc' = "yielded"
    /\ UNCHANGED <<store, row_prefix, row_start, row_stop, batch_size, limit, reverse,
                   current_limit, current_register>>
    /\ UNCHANGED save_vars

\* lines 130-141: the consumer asks for the next batch: the single-row and limit
\* checks, then the cursor moves past the last row
ScanResume ==
    /\ scan_pc = "yielded"
    /\ LET last_record == data[Len(data)]
           reg == current_register + Len(data)
       IN  IF IsTerminalBatch(data)
           THEN /\ scan_pc' = "single"
                /\ UNCHANGED <<row_start, current_limit, current_register>>
           ELSE /\ current_register' = Count(limit, reg)
                /\ IF LimitReached(limit, reg)
                   THEN /\ scan_pc' = "limit"
                        /\ UNCHANGED <<row_start, current_limit>>
                   ELSE /\ current_limit' = IF limit # 0
                                            THEN NextLimit(limit, batch_size, reg)
                                            ELSE current_limit
                        /\ IF CanIncrement(last_record)
                           THEN /\ row_start' = Increment(last_record)
                                /\ scan_pc' = "loop"
                           ELSE /\ scan_pc' = "error"
                                /\ UNCHANGED row_start
    /\ UNCHANGED <<store, row_prefix, row_stop, batch_size, limit, reverse, data, scans,
                   yielded>>
    /\ UNCHANGED save_vars

----------------------------------------------------------------------------
(* save_to_hbase: strings are sequences of one-character strings (the uid   *)
(* is one opaque token)                                                     *)

MaxDocs     == 2    \* longest documents argument
MaxMap      == 2    \* longest cf_mapping argument
MaxPutBatch == 2    \* largest batch_size argument

UIDs == {"u1", "u2"}        \* what uuid.uuid4() may return

All == [kind |-> "all", fields |-> <<>>]            \* fields == "all"
List(fs) == [kind |-> "list", fields |-> fs]        \* isinstance(fields, list)
Other == [kind |-> "other", fields |-> <<>>]        \* anything else

Records == { <<>>,
             [f \in {"x"} |-> 2],
             [f \in {"y"} |-> 1],
             [f \in {"x", "y"} |-> IF f = "x" THEN 1 ELSE 2] }

MappingEntries == { <<"a", List(<<"x">>)>>, <<"a", All>>, <<"b", All>>, <<"b", Other>> }

RowFieldChoices == { <<>>, <<"x", "z">> }

SeqsUpTo(S, n) == UNION {[1..m -> S] : m \in 0..n}

Range(s) == {s[i] : i \in DOMAIN s}

DigitChars == <<"0", "1", "2", "3", "4", "5", "6", "7", "8", "9">>

\* str(n) for an int n >= 0
RECURSIVE Str(_)
Str(n) == IF n < 10 THEN <<DigitChars[n + 1]>>
          ELSE Str(n \div 10) \o <<DigitChars[(n % 10) + 1]>>

\* f"{cf}:{c}"
Column(cf, c) == <<cf, ":", c>>

\* f"{uid}~{row_auto}"
AutoRow(u, n) == <<u, "~">> \o Str(n)

\* the counter is never advanced
NextRowAutoStuck(n) == n

NextRowAuto(n) == n + 1

\* "~".join([str(d_.pop(f)) if f in d_ else "" for f in row_fields]), and the d_ left;
\* a field popped once is absent when row_fields names it again
RECURSIVE JoinFields(_, _, _)
JoinFields(d_, fs, i) ==
    IF i > Len(fs) THEN [row |-> <<>>, d_ |-> d_]
    ELSE LET f    == fs[i]
             seg  == IF f \in DOMAIN d_ THEN Str(d_[f]) ELSE <<>>
             left == [c \in (DOMAIN d_) \ {f} |-> d_[c]]
             tail == JoinFields(left, fs, i + 1)
         IN  [row |-> seg \o (IF i < Len(fs) THEN <<"~">> ELSE <<>>) \o tail.row,
              d_  |-> tail.d_]

\* lines 64-68: the row key and the working copy after it
RowOf(d, rf, u, n) ==
    IF rf = <<>>
    THEN [row |-> AutoRow(u, n), d_ |-> d]
    ELSE JoinFields(d, rf, 1)

\* lines 71-77: the columns one mapping entry writes from the working copy d_
EntryColumns(cf, fields, d_) ==
    IF fields.kind = "all"
    THEN {c \in DOMAIN d_ : TRUE}
    ELSE {c \in Range(fields.fields) : c \in DOMAIN d_}

EntryValues(cf, fields, d_) ==
    [col \in {Column(cf, c) : c \in EntryColumns(cf, fields, d_)} |-> Str(d_[col[3]])]

\* lines 69-79: values after the first n mapping entries (a later entry overwrites)
RECURSIVE ValuesOf(_, _, _)
ValuesOf(mapping, d_, n) ==
    IF n = 0 THEN <<>>
    ELSE EntryValues(mapping[n][1], mapping[n][2], d_) @@ ValuesOf(mapping, d_, n - 1)

\* a selector that is not "all" is taken for a list
MappingNeverRaises(mapping) == FALSE

\* line 78-79: the for loop over cf_mapping reaches an entry that raises
MappingRaises(mapping) == \E i \in DOMAIN mapping : mapping[i][2].kind \notin {"all", "list"}

\* line 58 and lines 32-33: the families create_table is called with
Families(mapping) ==
    IF mapping = <<>> THEN {"cf"} ELSE {mapping[i][1] : i \in DOMAIN mapping}

\* the client-side batch: put() counts one mutation per column value and sends on
\* its own once batch_size mutations are held
Mutations(ps) == IF ps = <<>> THEN 0
                 ELSE LET Sum[i \in 0..Len(ps)] ==
                              IF i = 0 THEN 0
                              ELSE Sum[i - 1] + Cardinality(DOMAIN ps[i].values)
                      IN  Sum[Len(ps)]

BatchFull(ps, bs) == Mutations(ps) >= bs

IdleScan ==
    /\ store = {}
    /\ row_prefix = None
    /\ row_start = None
    /\ row_stop = None
    /\ batch_size = 0
    /\ limit = 0
    /\ reverse = FALSE
    /\ current_limit = 0
    /\ current_register = 0
    /\ data = <<>>
    /\ scans = <<>>
    /\ yielded = <<>>
    /\ scan_pc = "idle"

IdleSave ==
    /\ documents = <<>>
    /\ cf_mapping = <<>>
    /\ row_fields = <<>>
    /\ put_batch_size = 0
    /\ create_outcome = "none"
    /\ printed = FALSE
    /\ table_open = FALSE
    /\ uid = "none"
    /\ row_auto = 0
    /\ doc_index = 0
    /\ puts = <<>>
    /\ sends = 0
    /\ pending = <<>>
    /\ flushed = <<>>
    /\ save_pc = "idle"

InitSave ==
    /\ documents \in SeqsUpTo(Records, MaxDocs)
    /\ cf_mapping \in SeqsUpTo(MappingEntries, MaxMap)
    /\ row_fields \in RowFieldChoices
    /\ put_batch_size \in 1..MaxPutBatch
    /\ create_outcome = "none"
    /\ printed = FALSE
    /\ table_open = FALSE
    /\ uid = "none"
    /\ row_auto = 0
    /\ doc_index = 0
    /\ puts = <<>>
    /\ sends = 0
    /\ pending = <<>>
    /\ flushed = <<>>
    /\ save_pc = "start"

\* lines 57-61, with __get_h_table__ (lines 31-40): whatever create_table does, the
\* table is opened and the write goes on
SaveOpen ==
    /\ save_pc = "start"
    /\ create_outcome' \in {"created", "already_exists", "failed"}
    /\ printed' = (create_outcome' = "failed")
    /\ table_open' = TRUE
    /\ uid' \in UIDs
    /\ row_auto' = 0
    /\ doc_index' = 1
    /\ save_pc' = "loop"
    /\ UNCHANGED <<documents, cf_mapping, row_fields, put_batch_size, puts, sends,
                   pending, flushed>>
    /\ UNCHANGED scan_vars

\* lines 62-80: one iteration of the for loop over documents
SaveRecord ==
    /\ save_pc = "loop"
    /\ doc_index <= Len(documents)
    /\ LET d      == documents[doc_index]
           keyed  == RowOf(d, row_fields, uid, row_auto)
           values == ValuesOf(cf_mapping, keyed.d_, Len(cf_mapping))
           held   == Append(pending, [row |-> keyed.row, values |-> values])
       IN  /\ row_auto' = IF row_fields = <<>> THEN NextRowAuto(row_auto) ELSE row_auto
           /\ IF MappingRaises(cf_mapping)
              THEN /\ save_pc' = "raised"
                   /\ UNCHANGED <<doc_index, puts, pending, flushed>>
              ELSE /\ puts' = Append(puts, [row |-> keyed.row, values |-> values])
                   /\ IF BatchFull(held, put_batch_size)
                      THEN /\ flushed' = flushed \o held
                           /\ pending' = <<>>
                      ELSE /\ pending' = held
                           /\ UNCHANGED flushed
                   /\ doc_index' = doc_index + 1
                   /\ save_pc' = "loop"
    /\ UNCHANGED <<documents, cf_mapping, row_fields, put_batch_size, create_outcome,
                   printed, table_open, uid, sends>>
    /\ UNCHANGED scan_vars

\* the function returns without the final send
SaveSendWithoutFlush ==
    /\ save_pc = "loop"
    /\ doc_index > Len(documents)
    /\ save_pc' = "returned"
    /\ UNCHANGED <<documents, cf_mapping, row_fields, put_batch_size, create_outcome,
                   printed, table_open, uid, row_auto, doc_index, puts, sends, pending,
                   flushed>>
    /\ UNCHANGED scan_vars

\* line 81: h_batch.send() after the loop, then return
SaveSend ==
    /\ save_pc = "loop"
    /\ doc_index > Len(documents)
    /\ sends' = sends + 1
    /\ flushed' = flushed \o pending
    /\ pending' = <<>>
    /\ save_pc' = "returned"
    /\ UNCHANGED <<documents, cf_mapping, row_fields, put_batch_size, create_outcome,
                   printed, table_open, uid, row_auto, doc_index, puts>>
    /\ UNCHANGED scan_vars

----------------------------------------------------------------------------
(* Specifications *)

Init == InitScan /\ IdleSave

Next == ScanStart \/ ScanRound \/ ScanResume

Spec == Init /\ [][Next]_vars

\* the generator is pulled until it ends
FairSpec == Spec /\ WF_vars(ScanStart) /\ WF_vars(ScanRound) /\ WF_vars(ScanResume)

SaveInit == InitSave /\ IdleScan

SaveNext == SaveOpen \/ SaveRecord \/ SaveSend

SaveSpec == SaveInit /\ [][SaveNext]_vars

----------------------------------------------------------------------------
(* Properties of get_hbase_data_batch *)

RECURSIVE TotalRows(_)
TotalRows(batches) ==
    IF batches = <<>> THEN 0
    ELSE Len(batches[1]) + TotalRows(Tail(batches))

YieldedKeys == UNION {Range(yielded[j]) : j \in DOMAIN yielded}

\* the bounds the first scan is (or would be) issued with
FirstStart == IF scans = <<>> THEN row_start ELSE scans[1].row_start
FirstStop  == IF scans = <<>> THEN row_stop ELSE scans[1].row_stop

NormalEnd == scan_pc \in {"exhausted", "single", "limit"}

\* C2: without a limit, once a forward scan has ended, every stored row whose key
\* lies in [row_start, row_stop) is in some yielded batch.
C2_Coverage ==
    (limit = 0 /\ ~reverse /\ NormalEnd) =>
        \A k \in store : InScanRange(k, FirstStart, FirstStop, FALSE) => k \in YieldedKeys

Ended == NormalEnd \/ scan_pc = "error"

\* C3: every scan, forward or reverse, yields finitely many batches and then ends.
C3_Terminates == (scan_pc = "start") ~> Ended

\* C4: round i requests min(batch_size, limit - rows yielded before it) rows when a
\* limit is set and batch_size rows otherwise; no round is pending once the limit
\* is reached; the rows yielded never exceed the limit.
C4_LimitReconciliation ==
    /\ \A i \in DOMAIN scans :
          scans[i].limit = IF limit # 0
                           THEN Min(batch_size, limit - TotalRows(SubSeq(yielded, 1, i - 1)))
                           ELSE batch_size
    /\ limit # 0 => TotalRows(yielded) <= limit
    /\ (limit # 0 /\ scan_pc = "loop") => TotalRows(yielded) < limit
    /\ (limit # 0 /\ scan_pc = "limit") => TotalRows(yielded) = limit

C4_Witness ==
    /\ limit = 3
    /\ batch_size = 2
    /\ Len(scans) = 2
    /\ scans[1].limit = 2
    /\ scans[2].limit = 1
    /\ TotalRows(yielded) = 3

\* C6: a yielded batch of exactly one row is the last thing the generator does: it
\* is the last batch, its scan is the last scan, and the generator has ended.
C6_SingleRowTerminal ==
    \A j \in DOMAIN yielded :
        Len(yielded[j]) = 1 =>
            /\ j = Len(yielded)
            /\ Len(scans) = Len(yielded)
            /\ scan_pc \in {"yielded", "single"}

\* a forward scan ended on a one-row batch although rows of the range lie beyond it
C6_Witness ==
    /\ scan_pc = "single"
    /\ ~reverse
    /\ Len(yielded) = 1
    /\ Len(yielded[1]) = 1
    /\ \E k \in store : /\ LexLess(yielded[1][1], k)
                        /\ InScanRange(k, FirstStart, FirstStop, FALSE)

\* key k begins with p
IsPrefix(p, k) == Len(p) <= Len(k) /\ \A j \in 1..Len(p) : k[j] = p[j]

ProbeChars == Alphabet \cup {99}

\* keys of up to three characters around the alphabet
ProbeKeys == UNION {[1..n -> ProbeChars] : n \in 1..3}

\* the scan bounds are the prefix and the prefix with its last character replaced by
\* the next code point, and the interval holds exactly the keys beginning with it
\* (the bounds of the first scan are fixed once derived: the interval is examined
\* where they are derived)
PrefixRange ==
    /\ FirstStart = row_prefix
    /\ Len(FirstStop) = Len(row_prefix)
    /\ \A j \in 1..(Len(row_prefix) - 1) : FirstStop[j] = row_prefix[j]
    /\ FirstStop[Len(row_prefix)] = row_prefix[Len(row_prefix)] + 1
    /\ scans = <<>> =>
          \A k \in ProbeKeys :
              InScanRange(k, FirstStart, FirstStop, FALSE) <=> IsPrefix(row_prefix, k)

\* C7 as stated: for every non-empty prefix the scan runs over the prefix range.
C7_EveryPrefix ==
    (row_prefix # None /\ scan_pc # "start") => (scan_pc # "error" \/ scans # <<>>) /\ PrefixRange

\* C7 as amended: for every non-empty prefix whose last character is below U+10FFFF
\* the scan runs over the prefix range, whatever row_start and row_stop were passed.
C7_PrefixRange ==
    (row_prefix # None /\ scan_pc # "start" /\ row_prefix[Len(row_prefix)] < MaxCodePoint)
        => PrefixRange

C7_Witness ==
    /\ row_prefix = <<97, 98>>
    /\ Len(scans) >= 1
    /\ scans[1].row_start = <<97, 98>>
    /\ scans[1].row_stop = <<97, 99>>
    /\ <<97, 98>> \in YieldedKeys

\* t is s with its last character replaced by the next code point
IsSuccessor(t, s) ==
    /\ Len(t) = Len(s)
    /\ Len(s) >= 1
    /\ \A j \in 1..(Len(s) - 1) : t[j] = s[j]
    /\ t[Len(s)] = s[Len(s)] + 1

\* the consumer has resumed the generator after a batch of two or more rows that
\* did not reach the limit
ResumedAfterFullRound == Len(data) >= 2 /\ scan_pc \notin {"yielded", "limit"}

\* every scan after the first starts at the successor of the last row yielded
\* before it, with the first round's row_stop and reverse
LaterScansFollowLastRow ==
    \A i \in DOMAIN scans :
        i >= 2 =>
            /\ Len(yielded[i - 1]) >= 2
            /\ IsSuccessor(scans[i].row_start, yielded[i - 1][Len(yielded[i - 1])])
            /\ scans[i].row_stop = scans[1].row_stop
            /\ scans[i].reverse = scans[1].reverse

\* between a scan and the next resume, and at every end, row_start is what the last
\* scan was issued with
RowStartOnlyAdvanced ==
    (scans # <<>> /\ Len(scans) < MaxHist /\ scan_pc \in {"yielded", "exhausted", "single", "limit", "error"})
        => row_start = scans[Len(scans)].row_start

\* C11 as stated: after every round of two or more rows that did not reach the limit
\* the next scan is due with row_start the successor of the last row's key, and
\* every later scan has the first round's row_stop and other options (the limit
\* option among them); row_start is assigned nowhere else.
C11_EveryRoundAdvances ==
    /\ ResumedAfterFullRound =>
          /\ scan_pc = "loop"
          /\ IsSuccessor(row_start, data[Len(data)])
    /\ LaterScansFollowLastRow
    /\ \A i \in DOMAIN scans : scans[i].limit = scans[1].limit
    /\ RowStartOnlyAdvanced

\* C11 as amended: after every round of two or more rows that did not reach the limit
\* and whose last key ends below U+10FFFF, the next scan is due with row_start the
\* successor of the last row's key; every later scan has the first round's row_stop
\* and reverse (its limit option is the round's size); row_start is assigned nowhere
\* else.  After a last key ending in U+10FFFF the generator fails and row_start is
\* left as it was.
C11_CursorAdvance ==
    /\ (ResumedAfterFullRound /\ data[Len(data)][Len(data[Len(data)])] < MaxCodePoint) =>
          /\ scan_pc = "loop"
          /\ IsSuccessor(row_start, data[Len(data)])
          /\ row_stop = FirstStop
    /\ (ResumedAfterFullRound /\ data[Len(data)][Len(data[Len(data)])] = MaxCodePoint) =>
          scan_pc = "error"
    /\ LaterScansFollowLastRow
    /\ RowStartOnlyAdvanced

\* rounds [a, aa] then [b]: the second scan starts at "ab"
C11_Witness ==
    /\ ~reverse
    /\ Len(scans) = 2
    /\ Len(yielded) = 2
    /\ yielded[1] = << <<97>>, <<97, 97>> >>
    /\ yielded[2] = << <<98>> >>
    /\ scans[2].row_start = <<97, 98>>
    /\ scans[2].row_stop = scans[1].row_stop

\* the rows of the batches, in yield order
RECURSIVE Flatten(_)
Flatten(batches) ==
    IF batches = <<>> THEN <<>>
    ELSE batches[1] \o Flatten(Tail(batches))

StrictlyIncreasing(keys) == \A i \in 1..(Len(keys) - 1) : LexLess(keys[i], keys[i + 1])

\* C12: on a forward scan the row keys of all yielded batches, in yield order, are
\* strictly increasing, so no row is yielded twice.
C12_ForwardKeysIncrease ==
    ~reverse =>
        /\ StrictlyIncreasing(Flatten(yielded))
        /\ Cardinality(YieldedKeys) = TotalRows(yielded)

\* a forward scan without a limit that yielded three rows in two batches
C12_Witness ==
    /\ ~reverse
    /\ limit = 0
    /\ scan_pc = "single"
    /\ Len(yielded) = 2
    /\ Len(Flatten(yielded)) = 3
    /\ LexLess(yielded[1][2], yielded[2][1])

----------------------------------------------------------------------------
(* Properties of save_to_hbase *)

DigitValue(c) == CHOOSE n \in 0..9 : DigitChars[n + 1] = c

\* int(s) for a string of decimal digits
RECURSIVE ParseNat(_)
ParseNat(s) ==
    IF s = <<>> THEN 0
    ELSE 10 * ParseNat(SubSeq(s, 1, Len(s) - 1)) + DigitValue(s[Len(s)])

\* an explicit-list entry before entry j names field c
ClaimedBefore(j, c) ==
    \E i \in 1..(j - 1) : cf_mapping[i][2].kind = "list" /\ c \in Range(cf_mapping[i][2].fields)

\* C1: every column cf:c put for a record is written by a mapping entry of family
\* cf that names c, or by an "all" entry of family cf that no earlier explicit-list
\* entry has taken c from.
C1_FieldConsumption ==
    \A i \in DOMAIN puts :
        \A col \in DOMAIN puts[i].values :
            \E j \in DOMAIN cf_mapping :
                /\ cf_mapping[j][1] = col[1]
                /\ ~ClaimedBefore(j, col[3])
                /\ \/ cf_mapping[j][2].kind = "all"
                   \/ col[3] \in Range(cf_mapping[j][2].fields)

\* the mapping holds a selector that is neither "all" nor a list
InvalidSelector == \E i \in DOMAIN cf_mapping : cf_mapping[i][2] = Other

C8_PutsThenSend ==
    ~InvalidSelector =>
        /\ Len(puts) <= Len(documents)
        /\ save_pc = "loop" => Len(puts) = doc_index - 1
        /\ \A i \in DOMAIN puts :
              \A col \in DOMAIN puts[i].values :
                  /\ col[3] \in DOMAIN documents[i]
                  /\ puts[i].values[col] = Str(documents[i][col[3]])
        /\ flushed \o pending = puts
        /\ save_pc \in {"start", "loop"} => sends = 0
        /\ save_pc = "returned" =>
              /\ Len(puts) = Len(documents)
              /\ sends = 1
              /\ pending = <<>>
              /\ flushed = puts

\* two records whose puts the batch never sent on its own, delivered at return
C8_Witness ==
    /\ save_pc = "returned"
    /\ Len(documents) = 2
    /\ Len(puts) = 2
    /\ Mutations(puts) < put_batch_size
    /\ flushed = puts

\* C9: in auto mode the i-th put has the row key "<uid>~<i-1>" for the one uid of
\* the call, so the keys are pairwise distinct and increase with the suffix.
C9_AutoRowKeys ==
    row_fields = <<>> =>
        /\ \A i \in DOMAIN puts :
              /\ puts[i].row[1] = uid
              /\ puts[i].row[2] = "~"
              /\ ParseNat(SubSeq(puts[i].row, 3, Len(puts[i].row))) = i - 1
        /\ \A i, j \in DOMAIN puts : i # j => puts[i].row # puts[j].row
        /\ uid \in UIDs \cup {"none"}
        /\ puts # <<>> => uid \in UIDs

C9_Witness ==
    /\ row_fields = <<>>
    /\ Len(puts) = 2
    /\ puts[1].row = <<uid, "~", "0">>
    /\ puts[2].row = <<uid, "~", "1">>

\* C10: a create_table failure other than "already exists" makes the call fail:
\* the table is not opened and nothing is put.
C10_CreateFailureSurfaced ==
    create_outcome = "failed" =>
        /\ save_pc = "create_failed"
        /\ ~table_open
        /\ puts = <<>>

=============================================================================
